---------------------------- MODULE Spec2Model ----------------------------
(***************************************************************************)
(* Caissa: the incremental neural-network evaluator                        *)
(* (src/src/backend/NeuralNetworkEvaluator.cpp) and the training-data      *)
(* loader (src/unnamed/part_000, TrainingDataLoader).                      *)
(*                                                                         *)
(* Four specifications share the module's variables:                       *)
(*   Spec        the search stack and NNEvaluator::Evaluate on its nodes   *)
(*   SpecIndex   PositionToFeaturesVector / DirtyPieceToFeatureIndex as    *)
(*               pure functions over drawn inputs                          *)
(*   SpecLoader  TrainingDataLoader::Init and SampleInputFileIndex         *)
(*   SpecFetch   InputFileContext::FetchNextPosition, its loop step by     *)
(*               step, with the fairness of its random draws               *)
(***************************************************************************)
EXTENDS Integers, Sequences, FiniteSets

VARIABLES
    nodes,      \* the search stack: nodes[1] is the root, nodes[k].parentNode = k-1
    last,       \* what the last operation on the stack did (locals of Evaluate)
    ix,         \* SpecIndex: the drawn inputs and the computed outputs
    ld,         \* SpecLoader: the directory listing and the loader's fields
    ft          \* SpecFetch: one InputFileContext and the position in its loop

vars == <<nodes, last, ix, ld, ft>>

(***************************************************************************)
(* Bounds of the model.                                                    *)
(***************************************************************************)
\* most nodes on the search stack (root included)
MaxDepth == 3
\* most files in a directory listing
MaxFiles == 3
\* the sampled u are the multiples of 1/UGrid in [0,1) and the CDF entries
UGrid == 4
\* most records in the file of SpecFetch
MaxRecords == 2
\* most dirty pieces of a node of SpecTree
MaxPad == 3
\* most entries of a drawn addedFeatures or removedFeatures list
MaxChanged == 3

(***************************************************************************)
(* Squares, colours, pieces.                                               *)
(***************************************************************************)
Squares == 0 .. 63
\* Square::Invalid: a DirtyPiece's missing from- or to-square
InvalidSquare == 64
IsValid(sq) == sq \in Squares

Colors == {"White", "Black"}
GetOppositeColor(c) == IF c = "White" THEN "Black" ELSE "White"

\* (uint32_t)piece - (uint32_t)Piece::Pawn
Pawn == 0
Knight == 1
Bishop == 2
Rook == 3
Queen == 4
King == 5
PieceTypes == Pawn .. King

File(sq) == sq % 8
Rank(sq) == sq \div 8
FlippedFile(sq) == 8 * Rank(sq) + (7 - File(sq))
FlippedRank(sq) == 8 * (7 - Rank(sq)) + File(sq)

\* bitwise operations on 6-bit values
Pow2(i) == CASE i = 0 -> 1 [] i = 1 -> 2 [] i = 2 -> 4
             [] i = 3 -> 8 [] i = 4 -> 16 [] OTHER -> 32
Bit(a, i) == (a \div Pow2(i)) % 2
XorBit(x, y) == (x + y) % 2
OrBit(x, y) == IF x + y > 0 THEN 1 ELSE 0
RECURSIVE XorFrom(_, _, _)
XorFrom(a, b, i) ==
    IF i > 5 THEN 0
    ELSE XorBit(Bit(a, i), Bit(b, i)) * Pow2(i) + XorFrom(a, b, i + 1)
RECURSIVE OrFrom(_, _, _)
OrFrom(a, b, i) ==
    IF i > 5 THEN 0
    ELSE OrBit(Bit(a, i), Bit(b, i)) * Pow2(i) + OrFrom(a, b, i + 1)
\* a ^ b and a | b
Xor6(a, b) == XorFrom(a, b, 0)
Or6(a, b) == OrFrom(a, b, 0)

\* the sequences over S of length at most n
RECURSIVE SeqsUpTo(_, _)
SeqsUpTo(S, n) ==
    IF n = 0 THEN {<<>>}
    ELSE LET shorter == SeqsUpTo(S, n - 1)
         IN  shorter \cup {Append(q, x) : q \in {r \in shorter : Len(r) = n - 1}, x \in S}

(***************************************************************************)
(* A Position is the set of its pieces, each <<piece, colour, square>>;    *)
(* Bitboard is one piece bitboard of one SidePosition.                     *)
(***************************************************************************)
Bitboard(pos, color, piece) == {t[3] : t \in {u \in pos : u[1] = piece /\ u[2] = color}}
GetKingSquare(pos, color) == CHOOSE sq \in Bitboard(pos, color, King) : TRUE
GetNumPieces(pos) == Cardinality(pos)
GetNumPiecesExcludingKing(pos) == Cardinality({t \in pos : t[1] # King})

\* a position the engine can hold: one king a side, one piece a square
IsPosition(pos) ==
    /\ \A c \in Colors : Cardinality(Bitboard(pos, c, King)) = 1
    /\ \A t, u \in pos : t[3] = u[3] => t = u

\* Bitboard::Iterate visits the set squares in ascending order
RECURSIVE Iterate(_)
Iterate(bb) ==
    IF bb = {} THEN <<>>
    ELSE LET lo == CHOOSE s \in bb : \A t \in bb : s <= t
         IN  <<lo>> \o Iterate(bb \ {lo})

(***************************************************************************)
(* The feature encoder.                                                    *)
(***************************************************************************)
\* number of inputs of the network: 32 + 64 + 10 * 64
NumInputs == 736

\* the lambda writePieceFeatures: one index per set square, at offset numInputs
writePieceFeatures(bitboard, bitFlipMask, numInputs) ==
    LET sq == Iterate(bitboard)
    IN  [i \in 1 .. Len(sq) |-> numInputs + Xor6(sq[i], bitFlipMask)]

\* the file flip taken by the white king, whatever the perspective
KingOnRightFilesOfWhite(pos, perspective) == File(GetKingSquare(pos, "White")) >= 4

\* the file flip is taken when the king of the perspective stands on files e-h
KingOnRightFiles(pos, perspective) == File(GetKingSquare(pos, perspective)) >= 4

\* the flat index of a square in the 32-slot subspace of the own king
OwnKingSlot(sq) == 4 * Rank(sq) + File(sq)

\* a king's square after the flips PositionToFeaturesVector applies to both kings
FlippedKingSquare(pos, perspective, color) ==
    LET k0 == GetKingSquare(pos, color)
        k1 == IF KingOnRightFiles(pos, perspective) THEN FlippedFile(k0) ELSE k0
    IN  IF perspective = "Black" THEN FlippedRank(k1) ELSE k1

\* whiteKingIndex, which ASSERT(whiteKingIndex < 32) is about
WhiteKingIndex(pos, perspective) ==
    OwnKingSlot(FlippedKingSquare(pos, perspective, perspective))

\* the mask without the rank flip of the Black perspective
BitFlipMaskNoRankFlip(pos, perspective) ==
    IF KingOnRightFiles(pos, perspective) THEN 7 ELSE 0

\* bitFlipMask: 0b000111 for the file flip, |= 0b111000 for the rank flip
BitFlipMask(pos, perspective) ==
    LET mask0 == IF KingOnRightFiles(pos, perspective) THEN 7 ELSE 0
    IN  IF perspective = "Black" THEN Or6(mask0, 56) ELSE mask0

\* PositionToFeaturesVector: the array outFeatures[0 .. numFeatures-1]
PositionToFeaturesVector(pos, perspective) ==
    LET whites == perspective
        blacks == GetOppositeColor(perspective)
        bitFlipMask == BitFlipMask(pos, perspective)
        own(piece) == writePieceFeatures(Bitboard(pos, whites, piece), bitFlipMask, 64 * piece)
        opp(piece) == writePieceFeatures(Bitboard(pos, blacks, piece), bitFlipMask,
                                         5 * 64 + 32 + 64 * piece)
    IN  own(Pawn) \o own(Knight) \o own(Bishop) \o own(Rook) \o own(Queen)
          \o <<5 * 64 + WhiteKingIndex(pos, perspective)>>
          \o opp(Pawn) \o opp(Knight) \o opp(Bishop) \o opp(Rook) \o opp(Queen)
          \o <<5 * 64 + 32 + 5 * 64 + FlippedKingSquare(pos, perspective, blacks)>>

\* the one index PositionToFeaturesVector writes for a piece of the position
FeatureOfPiece(pos, perspective, piece, color, sq) ==
    LET half == IF color = perspective THEN 0 ELSE 5 * 64 + 32
    IN  IF piece # King
        THEN writePieceFeatures({sq}, BitFlipMask(pos, perspective), half + 64 * piece)[1]
        ELSE IF color = perspective
        THEN 5 * 64 + WhiteKingIndex(pos, perspective)
        ELSE 5 * 64 + 32 + 5 * 64 + FlippedKingSquare(pos, perspective, color)

\* the rank flip forgotten for the Black perspective
RelativeSquareNoRankFlip(square, pos, perspective) ==
    IF KingOnRightFiles(pos, perspective) THEN FlippedFile(square) ELSE square

\* the square of DirtyPieceToFeatureIndex after its two flips
RelativeSquare(square, pos, perspective) ==
    LET r1 == IF perspective = "Black" THEN FlippedRank(square) ELSE square
    IN  IF KingOnRightFiles(pos, perspective) THEN FlippedFile(r1) ELSE r1

\* ASSERT(relativeSquare.File() < 4) and ASSERT(kingSquareIndex < 32): what the
\* function requires of a king of the perspective's colour
OwnKingAssert(piece, pieceColor, square, pos, perspective) ==
    (piece = King /\ pieceColor = perspective) =>
        /\ File(RelativeSquare(square, pos, perspective)) < 4
        /\ OwnKingSlot(RelativeSquare(square, pos, perspective)) < 32

\* the own king written into the queens' block
DirtyPieceToFeatureIndexKingInQueens(piece, pieceColor, square, pos, perspective) ==
    LET relativeSquare == RelativeSquare(square, pos, perspective)
        index == IF piece = King /\ pieceColor = perspective
                 THEN 4 * 64 + OwnKingSlot(relativeSquare)
                 ELSE piece * 64 + relativeSquare
    IN  IF pieceColor # perspective THEN index + 32 + 5 * 64 ELSE index

\* the second half placed after six 64-wide blocks, the own king's 32-slot
\* block counted as 64
DirtyPieceToFeatureIndexWideHalf(piece, pieceColor, square, pos, perspective) ==
    LET relativeSquare == RelativeSquare(square, pos, perspective)
        index == IF piece = King /\ pieceColor = perspective
                 THEN 5 * 64 + OwnKingSlot(relativeSquare)
                 ELSE piece * 64 + relativeSquare
    IN  IF pieceColor # perspective THEN index + 6 * 64 ELSE index

\* DirtyPieceToFeatureIndex; the assertions compile to nothing in a release
\* build, so the index is computed for every argument
DirtyPieceToFeatureIndex(piece, pieceColor, square, pos, perspective) ==
    LET relativeSquare == RelativeSquare(square, pos, perspective)
        index == IF piece = King /\ pieceColor = perspective
                 THEN 5 * 64 + OwnKingSlot(relativeSquare)
                 ELSE piece * 64 + relativeSquare
    IN  IF pieceColor # perspective THEN index + 32 + 5 * 64 ELSE index

\* GetNetworkVariant
GetNetworkVariant(pos) ==
    LET q == GetNumPiecesExcludingKing(pos) \div 4
        pieceCountBucket == IF q < 7 THEN q ELSE 7
        queenPresenceBucket ==
            IF \E c \in Colors : Bitboard(pos, c, Queen) # {} THEN 1 ELSE 0
    IN  queenPresenceBucket * 8 + pieceCountBucket

\* the indices of an array as a set
Range(seq) == {seq[i] : i \in DOMAIN seq}

(***************************************************************************)
(* The network.  nn::Accumulator and nn::PackedNeuralNetwork are opaque:   *)
(* an accumulator is kept as the formal sum it stands for, a map from      *)
(* feature index (BiasIndex for the bias vector) to a non-zero integer     *)
(* coefficient, so that two accumulators are equal here exactly when they  *)
(* are equal for every choice of weights.                                  *)
(***************************************************************************)
BiasIndex == -1
ZeroVec == [x \in {} |-> 0]
Coef(v, i) == IF i \in DOMAIN v THEN v[i] ELSE 0
AddTerm(v, i, k) ==
    LET n == Coef(v, i) + k
        dom == IF n = 0 THEN DOMAIN v \ {i} ELSE DOMAIN v \cup {i}
    IN  [x \in dom |-> IF x = i THEN n ELSE v[x]]
RECURSIVE AddTerms(_, _, _)
AddTerms(v, seq, k) ==
    IF seq = <<>> THEN v ELSE AddTerms(AddTerm(v, Head(seq), k), Tail(seq), k)

\* Accumulator::Refresh(weights, biases, numFeatures, features)
AccumulatorRefresh(features) == AddTerms(AddTerm(ZeroVec, BiasIndex, 1), features, 1)
\* Accumulator::Update(prev, weights, added, removed)
AccumulatorUpdate(prev, added, removed) == AddTerms(AddTerms(prev, added, 1), removed, -1)
\* PackedNeuralNetwork::Run(ourAccumulator, theirAccumulator, variant)
NetworkRun(ourAccumulator, theirAccumulator, variant) ==
    [our |-> ourAccumulator, their |-> theirAccumulator, variant |-> variant]
\* PackedNeuralNetwork::Run(ourFeatures, theirFeatures, variant), the stateless form
NetworkRunFeatures(ourFeatures, theirFeatures, variant) ==
    NetworkRun(AccumulatorRefresh(ourFeatures), AccumulatorRefresh(theirFeatures), variant)

\* NNEvaluator::Evaluate(network, pos)
EvaluatePosition(pos, sideToMove) ==
    NetworkRunFeatures(PositionToFeaturesVector(pos, sideToMove),
                       PositionToFeaturesVector(pos, GetOppositeColor(sideToMove)),
                       GetNetworkVariant(pos))

\* nnScore's sentinel: a value no run of the network is taken to produce
InvalidValue == [our |-> ZeroVec, their |-> ZeroVec, variant |-> -1]

(***************************************************************************)
(* UpdateAccumulator.  ns is the search stack, a sequence of nodes         *)
(*   [parentNode, position, sideToMove, dirtyPieces, accumulator,          *)
(*    accumDirty, nnScore]                                                 *)
(* with parentNode = 0 for the null pointer.                               *)
(***************************************************************************)
\* one DirtyPiece's contribution to addedFeatures / removedFeatures
AddedOf(dp, pos, perspective) ==
    IF IsValid(dp.toSquare)
    THEN <<DirtyPieceToFeatureIndex(dp.piece, dp.color, dp.toSquare, pos, perspective)>>
    ELSE <<>>
RemovedOf(dp, pos, perspective) ==
    IF IsValid(dp.fromSquare)
    THEN <<DirtyPieceToFeatureIndex(dp.piece, dp.color, dp.fromSquare, pos, perspective)>>
    ELSE <<>>

RECURSIVE CollectList(_, _, _, _, _)
\* the inner loop over one node's dirtyPieces, from index i on
CollectList(dps, i, pos, perspective, adding) ==
    IF i > Len(dps) THEN <<>>
    ELSE (IF adding THEN AddedOf(dps[i], pos, perspective)
          ELSE RemovedOf(dps[i], pos, perspective))
         \o CollectList(dps, i + 1, pos, perspective, adding)

RECURSIVE CollectPathThrough(_, _, _, _, _, _)
\* the outer loop running one node too far: prevAccumNode's own dirty pieces,
\* already in its accumulator, are collected again
CollectPathThrough(ns, nodePtr, prevAccumNode, pos, perspective, adding) ==
    IF nodePtr = 0 THEN <<>>
    ELSE CollectList(ns[nodePtr].dirtyPieces, 1, pos, perspective, adding)
         \o (IF nodePtr = prevAccumNode THEN <<>>
             ELSE CollectPathThrough(ns, ns[nodePtr].parentNode, prevAccumNode,
                                     pos, perspective, adding))

RECURSIVE CollectPath(_, _, _, _, _, _)
\* the outer loop: nodePtr from the node up to, and without, prevAccumNode
CollectPath(ns, nodePtr, prevAccumNode, pos, perspective, adding) ==
    IF nodePtr = prevAccumNode \/ nodePtr = 0 THEN <<>>
    ELSE CollectList(ns[nodePtr].dirtyPieces, 1, pos, perspective, adding)
         \o CollectPath(ns, ns[nodePtr].parentNode, prevAccumNode, pos, perspective, adding)

\* "constexpr uint32_t maxChangedFeatures = 64"
maxChangedFeatures == 64

\* numAddedFeatures and numRemovedFeatures when the collecting loop is left
NumCollected(ns, prevAccumNode, node, perspective) ==
    [numAddedFeatures |->
        Len(CollectPath(ns, node, prevAccumNode, ns[node].position, perspective, TRUE)),
     numRemovedFeatures |->
        Len(CollectPath(ns, node, prevAccumNode, ns[node].position, perspective, FALSE))]

\* a[i] = a[--n]: the last element moves into place i
SwapRemove(a, i) ==
    [k \in 1 .. Len(a) - 1 |-> IF k = i THEN a[Len(a)] ELSE a[k]]

FirstMatch(removed, x) ==
    IF \E j \in DOMAIN removed : removed[j] = x
    THEN CHOOSE j \in DOMAIN removed :
            removed[j] = x /\ \A k \in 1 .. j - 1 : removed[k] # x
    ELSE 0

RECURSIVE CancelFromNoRecheck(_, _, _)
\* the loop without the i-- and j--: the element moved into place i is not
\* compared with the removed list
CancelFromNoRecheck(added, removed, i) ==
    IF i > Len(added) THEN [added |-> added, removed |-> removed]
    ELSE LET j == FirstMatch(removed, added[i])
         IN  IF j = 0 THEN CancelFromNoRecheck(added, removed, i + 1)
             ELSE CancelFromNoRecheck(SwapRemove(added, i), SwapRemove(removed, j), i + 1)

RECURSIVE CancelFrom(_, _, _)
\* "if same feature is present on both lists, it cancels out"
CancelFrom(added, removed, i) ==
    IF i > Len(added) THEN [added |-> added, removed |-> removed]
    ELSE LET j == FirstMatch(removed, added[i])
         IN  IF j = 0 THEN CancelFrom(added, removed, i + 1)
             ELSE CancelFrom(SwapRemove(added, i), SwapRemove(removed, j), i)

\* the two lists UpdateAccumulator hands to the network, after cancellation
ChangedFeatures(ns, prevAccumNode, node, perspective) ==
    CancelFrom(
        CollectPath(ns, node, prevAccumNode, ns[node].position, perspective, TRUE),
        CollectPath(ns, node, prevAccumNode, ns[node].position, perspective, FALSE),
        1)

\* the accumulator UpdateAccumulator computes (prevAccumNode = 0: refresh)
UpdatedAccumulator(ns, prevAccumNode, node, perspective) ==
    IF prevAccumNode # 0
    THEN LET ch == ChangedFeatures(ns, prevAccumNode, node, perspective)
             prev == ns[prevAccumNode].accumulator[perspective]
         IN  IF Len(ch.added) = 0 /\ Len(ch.removed) = 0
             THEN prev
             ELSE AccumulatorUpdate(prev, ch.added, ch.removed)
    ELSE AccumulatorRefresh(PositionToFeaturesVector(ns[node].position, perspective))

\* the update that marks the parent's accumulator as computed too
UpdateAccumulatorMarkingParent(ns, prevAccumNode, node, perspective) ==
    LET parent == ns[node].parentNode
        done == [ns EXCEPT ![node].accumulator[perspective] =
                               UpdatedAccumulator(ns, prevAccumNode, node, perspective),
                           ![node].accumDirty[perspective] = FALSE]
    IN  IF parent = 0 THEN done
        ELSE [done EXCEPT ![parent].accumDirty[perspective] = FALSE]

\* UpdateAccumulator(network, prevAccumNode, node, perspective): the stack after it
UpdateAccumulator(ns, prevAccumNode, node, perspective) ==
    [ns EXCEPT ![node].accumulator[perspective] =
                   UpdatedAccumulator(ns, prevAccumNode, node, perspective),
               ![node].accumDirty[perspective] = FALSE]

(***************************************************************************)
(* NNEvaluator::Evaluate(network, node).                                   *)
(***************************************************************************)
\* leftFilesMask = 0x0F0F0F0F0F0F0F0F: the squares of files a-d
leftFilesMask == {sq \in Squares : sq % 8 \in 0 .. 3}
\* (GetSide(color).king & leftFilesMask) != 0
KingSide(pos, color) == Bitboard(pos, color, King) \cap leftFilesMask # {}

\* the walk without its king-side test
KingSideNeverDiffers(ns, nodePtr, node, perspective) == FALSE

\* "if the king moved across left and right files boundary, then we need to
\* refresh": the test that breaks the walk at nodePtr
KingSideDiffers(ns, nodePtr, node, perspective) ==
    KingSide(ns[nodePtr].position, perspective) # KingSide(ns[node].position, perspective)

\* the cost test letting one dirty piece more through
TooCostlyByTwo(updateCost, refreshCost) == updateCost > refreshCost + 1

\* the walk without its cost test
TooCostlyNever(updateCost, refreshCost) == FALSE

\* "update cost higher than refresh cost": the other test that breaks the walk
TooCostly(updateCost, refreshCost) == updateCost > refreshCost

RECURSIVE WalkFrom(_, _, _, _, _)
\* the loop that looks for the closest node with a valid accumulator; the
\* result is prevAccumNode (0 for nullptr)
WalkFrom(ns, nodePtr, node, perspective, cost) ==
    IF nodePtr = 0 THEN 0
    ELSE LET updateCost == cost + Len(ns[nodePtr].dirtyPieces)
         IN  IF TooCostly(updateCost, GetNumPieces(ns[node].position)) THEN 0
             ELSE IF KingSideDiffers(ns, nodePtr, node, perspective) THEN 0
             ELSE IF ~ns[nodePtr].accumDirty[perspective] THEN nodePtr
             ELSE WalkFrom(ns, ns[nodePtr].parentNode, node, perspective, updateCost)

\* the walk starting at the parent, the node's own flag never looked at
FindPrevAccumNodeFromParent(ns, node, perspective) ==
    WalkFrom(ns, ns[node].parentNode, node, perspective, Len(ns[node].dirtyPieces))

FindPrevAccumNode(ns, node, perspective) == WalkFrom(ns, node, node, perspective, 0)

\* which of the three branches Evaluate takes for one perspective
TwoStage(ns, prevAccumNode, node, perspective) ==
    /\ ns[node].parentNode # 0
    /\ prevAccumNode # 0
    /\ ns[node].parentNode # prevAccumNode
    /\ ns[ns[node].parentNode].accumDirty[perspective]

UpdateKind(ns, node, perspective) ==
    LET prevAccumNode == FindPrevAccumNode(ns, node, perspective)
    IN  IF prevAccumNode = node THEN "cached"
        ELSE IF TwoStage(ns, prevAccumNode, node, perspective) THEN "twoStage"
        ELSE IF prevAccumNode # 0 THEN "update"
        ELSE "refresh"

\* the two stages in the other order: the node from its parent first
ResolvePerspectiveNodeFirst(ns, node, perspective) ==
    LET prevAccumNode == FindPrevAccumNode(ns, node, perspective)
        kind == UpdateKind(ns, node, perspective)
    IN  CASE kind = "cached" -> ns
          [] kind = "twoStage" ->
                UpdateAccumulator(
                    UpdateAccumulator(ns, ns[node].parentNode, node, perspective),
                    prevAccumNode, ns[node].parentNode, perspective)
          [] OTHER -> UpdateAccumulator(ns, prevAccumNode, node, perspective)

\* the body of the loop over the perspectives
ResolvePerspective(ns, node, perspective) ==
    LET prevAccumNode == FindPrevAccumNode(ns, node, perspective)
        kind == UpdateKind(ns, node, perspective)
    IN  CASE kind = "cached" -> ns
          [] kind = "twoStage" ->
                UpdateAccumulator(
                    UpdateAccumulator(ns, prevAccumNode, ns[node].parentNode, perspective),
                    ns[node].parentNode, node, perspective)
          [] OTHER -> UpdateAccumulator(ns, prevAccumNode, node, perspective)

\* the fast path: the cached score is returned when it is not the sentinel
HasCachedScore(ns, node) == ns[node].nnScore # InvalidValue

\* the stack after both perspectives are resolved, White first
ResolveBoth(ns, node) == ResolvePerspective(ResolvePerspective(ns, node, "White"), node, "Black")

\* network.Run with White's accumulator first, whoever is to move
NodeOutputWhiteFirst(ns, node) ==
    NetworkRun(ns[node].accumulator["White"], ns[node].accumulator["Black"],
               GetNetworkVariant(ns[node].position))

\* network.Run on the node's two accumulators
NodeOutput(ns, node) ==
    LET stm == ns[node].sideToMove
    IN  NetworkRun(ns[node].accumulator[stm],
                   ns[node].accumulator[GetOppositeColor(stm)],
                   GetNetworkVariant(ns[node].position))

\* the stack after Evaluate(network, node)
EvaluateNode(ns, node) ==
    IF HasCachedScore(ns, node) THEN ns
    ELSE LET r == ResolveBoth(ns, node)
         IN  [r EXCEPT ![node].nnScore = NodeOutput(r, node)]

\* the fast path reading the score of the parent's context, not the node's
EvaluateResultOfParent(ns, node) ==
    IF HasCachedScore(ns, node)
    THEN (IF ns[node].parentNode # 0 THEN ns[ns[node].parentNode].nnScore ELSE InvalidValue)
    ELSE NodeOutput(ResolveBoth(ns, node), node)

\* the value Evaluate(network, node) returns
EvaluateResult(ns, node) ==
    IF HasCachedScore(ns, node) THEN ns[node].nnScore
    ELSE NodeOutput(ResolveBoth(ns, node), node)

\* the nodes UpdateAccumulator's outer loop visits
RECURSIVE PathNodes(_, _, _)
PathNodes(ns, nodePtr, prevAccumNode) ==
    IF nodePtr = prevAccumNode \/ nodePtr = 0 THEN {}
    ELSE {nodePtr} \cup PathNodes(ns, ns[nodePtr].parentNode, prevAccumNode)

\* every call of DirtyPieceToFeatureIndex one UpdateAccumulator makes, with
\* whether its assertions hold and the index it returns
IndexCalls(ns, prevAccumNode, node, perspective) ==
    IF prevAccumNode = 0 THEN {}
    ELSE LET pos == ns[node].position
             dps == UNION {Range(ns[k].dirtyPieces) : k \in PathNodes(ns, node, prevAccumNode)}
             args == {<<dp, dp.toSquare, TRUE>> : dp \in {d \in dps : IsValid(d.toSquare)}}
                       \cup {<<dp, dp.fromSquare, FALSE>> : dp \in {d \in dps : IsValid(d.fromSquare)}}
         IN  {[piece |-> a[1].piece, color |-> a[1].color, square |-> a[2],
               perspective |-> perspective, adding |-> a[3],
               asserted |-> OwnKingAssert(a[1].piece, a[1].color, a[2], pos, perspective),
               index |-> DirtyPieceToFeatureIndex(a[1].piece, a[1].color, a[2], pos, perspective)]
              : a \in args}

\* the calls of DirtyPieceToFeatureIndex Evaluate makes for one perspective
PerspectiveCalls(ns, node, perspective) ==
    LET prevAccumNode == FindPrevAccumNode(ns, node, perspective)
        kind == UpdateKind(ns, node, perspective)
    IN  CASE kind = "cached" -> {}
          [] kind = "twoStage" ->
                IndexCalls(ns, prevAccumNode, ns[node].parentNode, perspective)
                  \cup IndexCalls(ns, ns[node].parentNode, node, perspective)
          [] OTHER -> IndexCalls(ns, prevAccumNode, node, perspective)

(***************************************************************************)
(* The search that owns the stack: it pushes a node per move made, with    *)
(* the dirty pieces of the move, and pops it when the move is undone.      *)
(***************************************************************************)
\* the squares a piece may go to in the model: the white king among d1, e1,
\* f1, e2, the black king among c8, d8, e8, the black pawn of e2 to e1
Targets(piece, color) ==
    CASE piece = King /\ color = "White" -> {3, 4, 5, 12}
      [] piece = King /\ color = "Black" -> {58, 59, 60}
      [] piece = Pawn /\ color = "Black" -> {4}
      [] OTHER -> {}

\* the positions the search may start from: the white king on d1 or f1, the
\* black king on d8, a black pawn on e2, with or without a white knight on
\* b1 and a white rook on a1 that never move
RootPositions ==
    {{<<King, "White", wk>>, <<King, "Black", 59>>, <<Pawn, "Black", 12>>} \cup extra
       : wk \in {3, 5}, extra \in {{}, {<<Knight, "White", 1>>, <<Rook, "White", 0>>}}}

PieceAt(pos, sq) == CHOOSE t \in pos : t[3] = sq
Occupied(pos, sq) == \E t \in pos : t[3] = sq

\* the moves of the side to move: a piece goes to a target square that is
\* empty or holds an enemy piece other than the king
Moves(pos, stm) ==
    UNION {{[from |-> t[3], to |-> s] :
              s \in {x \in Targets(t[1], stm) :
                        /\ x # t[3]
                        /\ Occupied(pos, x) =>
                              /\ PieceAt(pos, x)[2] # stm
                              /\ PieceAt(pos, x)[1] # King}}
           : t \in {u \in pos : u[2] = stm}}

\* a pawn reaching the last rank is promoted to a queen
IsPromotion(pos, m) ==
    PieceAt(pos, m.from)[1] = Pawn /\ Rank(m.to) \in {0, 7}

\* Position::DoMove
PositionAfter(pos, m) ==
    LET p == PieceAt(pos, m.from)
        landed == IF IsPromotion(pos, m) THEN Queen ELSE p[1]
    IN  {t \in pos : t[3] # m.from /\ t[3] # m.to} \cup {<<landed, p[2], m.to>>}

DirtyPiece(piece, color, fromSquare, toSquare) ==
    [piece |-> piece, color |-> color, fromSquare |-> fromSquare, toSquare |-> toSquare]

\* the dirty pieces the search records for a move
DirtyPiecesOf(pos, m) ==
    LET p == PieceAt(pos, m.from)
        moved == IF IsPromotion(pos, m)
                 THEN <<DirtyPiece(Pawn, p[2], m.from, InvalidSquare),
                        DirtyPiece(Queen, p[2], InvalidSquare, m.to)>>
                 ELSE <<DirtyPiece(p[1], p[2], m.from, m.to)>>
        captured == IF Occupied(pos, m.to)
                    THEN <<DirtyPiece(PieceAt(pos, m.to)[1], PieceAt(pos, m.to)[2],
                                      m.to, InvalidSquare)>>
                    ELSE <<>>
    IN  moved \o captured

\* NNEvaluatorContext::MarkAsDirty on a fresh node
NewNode(parentNode, pos, stm, dirtyPieces) ==
    [parentNode |-> parentNode, position |-> pos, sideToMove |-> stm,
     dirtyPieces |-> dirtyPieces,
     accumulator |-> [c \in Colors |-> ZeroVec],
     accumDirty |-> [c \in Colors |-> TRUE],
     nnScore |-> InvalidValue]

(***************************************************************************)
(* Spec: the search stack and Evaluate.                                    *)
(***************************************************************************)
\* the other specifications' variables, at rest
IdleIx == [pc |-> "idle"]
IdleLd == [pc |-> "idle"]
IdleFt == [pc |-> "idle"]

NoEvaluate == [op |-> "search"]

Init ==
    /\ \E pos \in RootPositions, stm \in Colors : nodes = <<NewNode(0, pos, stm, <<>>)>>
    /\ last = NoEvaluate
    /\ ix = IdleIx /\ ld = IdleLd /\ ft = IdleFt

Top == Len(nodes)

\* the search makes a move: a child of the top node is pushed
DoMove ==
    /\ Top < MaxDepth
    /\ \E m \in Moves(nodes[Top].position, nodes[Top].sideToMove) :
          nodes' = Append(nodes,
                      NewNode(Top, PositionAfter(nodes[Top].position, m),
                              GetOppositeColor(nodes[Top].sideToMove),
                              DirtyPiecesOf(nodes[Top].position, m)))
    /\ last' = NoEvaluate
    /\ UNCHANGED <<ix, ld, ft>>

\* the search makes a null move: the child has the parent's board and no dirty piece
DoNullMove ==
    /\ Top < MaxDepth
    /\ nodes' = Append(nodes,
                   NewNode(Top, nodes[Top].position,
                           GetOppositeColor(nodes[Top].sideToMove), <<>>))
    /\ last' = NoEvaluate
    /\ UNCHANGED <<ix, ld, ft>>

\* the search undoes the move of the top node
UndoMove ==
    /\ Top > 1
    /\ nodes' = SubSeq(nodes, 1, Top - 1)
    /\ last' = NoEvaluate
    /\ UNCHANGED <<ix, ld, ft>>

\* NNEvaluator::Evaluate(network, nodes[n]); last keeps the call's locals
Evaluate(n) ==
    /\ nodes' = EvaluateNode(nodes, n)
    /\ last' = [op |-> "evaluate", node |-> n,
                fast |-> HasCachedScore(nodes, n),
                ret |-> EvaluateResult(nodes, n),
                kind |-> [p \in Colors |-> UpdateKind(nodes, n, p)],
                prev |-> [p \in Colors |-> FindPrevAccumNode(nodes, n, p)],
                calls |-> IF HasCachedScore(nodes, n) THEN {}
                          ELSE PerspectiveCalls(nodes, n, "White")
                                 \cup PerspectiveCalls(nodes, n, "Black")]
    /\ UNCHANGED <<ix, ld, ft>>

Next ==
    \/ DoMove
    \/ DoNullMove
    \/ UndoMove
    \/ \E n \in 1 .. Top : Evaluate(n)

Spec == Init /\ [][Next]_vars

(***************************************************************************)
(* SpecTree: Evaluate on chains of nodes whose dirty-piece lists have any  *)
(* length.  A node's list says that a piece was put back on its square,    *)
(* as often as the list is long: it describes the null delta between the   *)
(* equal positions of parent and child.                                    *)
(***************************************************************************)
\* the positions of the chains: the bare kings, and the kings with a pawn
TreePositions ==
    {{<<King, "White", 3>>, <<King, "Black", 59>>},
     {<<King, "White", 3>>, <<King, "Black", 59>>, <<Pawn, "Black", 12>>}}

\* k dirty pieces, each the black king put back on its square
RECURSIVE Padding(_, _)
Padding(pos, k) ==
    IF k = 0 THEN <<>>
    ELSE <<DirtyPiece(King, "Black", GetKingSquare(pos, "Black"),
                      GetKingSquare(pos, "Black"))>> \o Padding(pos, k - 1)

\* the list lengths drawn
PadLens == {0, 1, MaxPad}

\* the chain of the given list lengths, all nodes marked dirty
Chain(pos, stm, pads) ==
    [k \in 1 .. Len(pads) |->
        NewNode(k - 1, pos, IF k % 2 = 1 THEN stm ELSE GetOppositeColor(stm),
                Padding(pos, IF k = 1 THEN 0 ELSE pads[k]))]

InitTree ==
    /\ \E pos \in TreePositions, stm \in Colors,
          pads \in SeqsUpTo(PadLens, MaxDepth) \ {<<>>} :
          nodes = Chain(pos, stm, pads)
    /\ last = NoEvaluate
    /\ ix = IdleIx /\ ld = IdleLd /\ ft = IdleFt

NextTree == \E n \in 1 .. Top : Evaluate(n)

SpecTree == InitTree /\ [][NextTree]_vars

(***************************************************************************)
(* SpecIndex: the two index functions on drawn arguments.                  *)
(***************************************************************************)
\* pieces of every type and colour that stand with the kings
Entourage ==
    {<<Pawn, "White", 9>>, <<Pawn, "White", 17>>, <<Knight, "White", 1>>,
     <<Bishop, "White", 18>>, <<Rook, "White", 0>>, <<Queen, "White", 27>>,
     <<Pawn, "Black", 52>>, <<Knight, "Black", 62>>, <<Bishop, "Black", 45>>,
     <<Rook, "Black", 63>>, <<Queen, "Black", 35>>}

\* the standard starting position
StartPosition ==
    LET backRank == <<Rook, Knight, Bishop, Queen, King, Bishop, Knight, Rook>>
    IN  UNION {{<<backRank[f + 1], "White", f>>, <<Pawn, "White", 8 + f>>,
                <<Pawn, "Black", 48 + f>>, <<backRank[f + 1], "Black", 56 + f>>}
                 : f \in 0 .. 7}

\* the positions drawn: the white king on a2 or h2, the black king on d8 or
\* e8, and the starting position
IndexPositions ==
    {Entourage \cup {<<King, "White", wk>>, <<King, "Black", bk>>}
       : wk \in {8, 15}, bk \in {59, 60}} \cup {StartPosition}

\* the colour mirror of a position: every piece changes colour and rank
ColourMirror(pos) == {<<t[1], GetOppositeColor(t[2]), FlippedRank(t[3])>> : t \in pos}

InitIndex ==
    /\ \E pos \in IndexPositions, perspective \in Colors, piece \in PieceTypes,
          color \in Colors, square \in Squares :
          ix = [pc |-> "drawn", pos |-> pos, perspective |-> perspective,
                piece |-> piece, color |-> color, square |-> square,
                index |-> 0, features |-> <<>>, mirrored |-> <<>>]
    /\ nodes = <<>> /\ last = NoEvaluate /\ ld = IdleLd /\ ft = IdleFt

\* both functions are applied to the drawn arguments
ComputeIndex ==
    /\ ix.pc = "drawn"
    /\ ix' = [ix EXCEPT
                !.pc = "done",
                !.index = DirtyPieceToFeatureIndex(ix.piece, ix.color, ix.square,
                                                   ix.pos, ix.perspective),
                !.features = PositionToFeaturesVector(ix.pos, ix.perspective),
                !.mirrored = PositionToFeaturesVector(ColourMirror(ix.pos),
                                                      GetOppositeColor(ix.perspective))]
    /\ UNCHANGED <<nodes, last, ld, ft>>

NextIndex == ComputeIndex

SpecIndex == InitIndex /\ [][NextIndex]_vars

(***************************************************************************)
(* SpecCancel: the cancellation loop of UpdateAccumulator on drawn lists.  *)
(***************************************************************************)
\* the feature indices the drawn lists are made of
ChangedIndices == {0, 1, 2}

\* addedFeatures and removedFeatures are any two lists; prev is the set of
\* features that the accumulator of prevAccumNode holds
InitCancel ==
    /\ \E added \in SeqsUpTo(ChangedIndices, MaxChanged),
          removed \in SeqsUpTo(ChangedIndices, MaxChanged),
          prev \in SUBSET ChangedIndices :
          ix = [pc |-> "collected", added |-> added, removed |-> removed,
                prev |-> prev, out |-> [added |-> <<>>, removed |-> <<>>]]
    /\ nodes = <<>> /\ last = NoEvaluate /\ ld = IdleLd /\ ft = IdleFt

\* the two nested loops run on the lists
Cancel ==
    /\ ix.pc = "collected"
    /\ ix' = [ix EXCEPT !.pc = "cancelled",
                        !.out = CancelFrom(ix.added, ix.removed, 1)]
    /\ UNCHANGED <<nodes, last, ld, ft>>

NextCancel == Cancel

SpecCancel == InitCancel /\ [][NextCancel]_vars

(***************************************************************************)
(* SpecLoader: TrainingDataLoader::Init and SampleInputFileIndex.          *)
(* A double is kept as the exact fraction [n, d] it stands for.            *)
(***************************************************************************)
\* sizeof(PositionEntry)
EntrySize == 32

Frac(n, d) == [n |-> n, d |-> d]
\* v /= t
FracDiv(v, t) == Frac(v.n, v.d * t)
FracLeq(a, b) == a.n * b.d <= b.n * a.d
FracLess(a, b) == a.n * b.d < b.n * a.d
FracEq(a, b) == a.n * b.d = b.n * a.d

\* the files a directory may list: one that does not open (GetSize() is 0),
\* and files of one, two and three records
ListedFiles ==
    {[isOpen |-> FALSE, size |-> 0]}
      \cup {[isOpen |-> TRUE, size |-> k * EntrySize] : k \in 1 .. 3}

\* the admission test taking a file of exactly one record
AdmittedOneRecord(file) == file.isOpen /\ file.size >= EntrySize

\* "fileStream->IsOpen() && fileSize > sizeof(PositionEntry)"
Admitted(file) == file.isOpen /\ file.size > EntrySize

RECURSIVE ScanFrom(_, _, _)
\* the loop over the directory from entry i on; st is [totalDataSize, mCDF, mContexts]
ScanFrom(listing, i, st) ==
    IF i > Len(listing) THEN st
    ELSE LET file == listing[i]
             total == st.totalDataSize + file.size
         IN  ScanFrom(listing, i + 1,
                 IF Admitted(file)
                 THEN [totalDataSize |-> total,
                       mCDF |-> Append(st.mCDF, Frac(total, 1)),
                       mContexts |-> Append(st.mContexts, [fileSize |-> file.size])]
                 ELSE [st EXCEPT !.totalDataSize = total])

\* "normalize": every entry of mCDF is divided by totalDataSize when that is > 0
Normalized(st) ==
    IF st.totalDataSize > 0
    THEN [st EXCEPT !.mCDF = [k \in DOMAIN st.mCDF |-> FracDiv(st.mCDF[k], st.totalDataSize)]]
    ELSE st

\* TrainingDataLoader::Init: the loader's fields after it
LoaderInit(listing) ==
    Normalized(ScanFrom(listing, 1,
        [totalDataSize |-> 0, mCDF |-> <<Frac(0, 1)>>, mContexts |-> <<>>]))

\* what Init returns: !mContexts.empty()
LoaderInitResult(listing) == LoaderInit(listing).mContexts # <<>>

RECURSIVE BinarySearch(_, _, _, _)
\* the loop of SampleInputFileIndex; mCDF[mid] of the code is cdf[mid + 1] here
BinarySearch(cdf, u, low, high) ==
    IF low < high
    THEN LET mid == (low + high) \div 2
         IN  IF FracLeq(cdf[mid + 1], u)
             THEN BinarySearch(cdf, u, mid + 1, high)
             ELSE BinarySearch(cdf, u, low, mid)
    ELSE low

\* 0u - 1u wraps to 2^32 - 1, beyond the integers of the model checker: the
\* wrapped value is kept as this number, above every container size
WrappedIndex == 2147483647

\* SampleInputFileIndex(u): low - 1u in 32-bit unsigned arithmetic
SampleInputFileIndex(cdf, numContexts, u) ==
    LET low == BinarySearch(cdf, u, 0, numContexts)
    IN  IF low = 0 THEN WrappedIndex ELSE low - 1

\* the values of u drawn: the multiples of 1/UGrid and the entries of the CDF, below 1
SampledU(cdf) ==
    {Frac(k, UGrid) : k \in 0 .. UGrid - 1}
      \cup {cdf[k] : k \in {j \in DOMAIN cdf : FracLess(cdf[j], Frac(1, 1))}}

\* how TrainingDataLoader::FetchNextPosition ends once fileIndex is known:
\* in the selected context's FetchNextPosition, or, with fileIndex out of
\* range, in the failed ASSERT of line 100 where the build compiles ASSERT in
\* and in "return false" where it does not
FetchOutcomes(fileIndex, numContexts) ==
    IF fileIndex < numContexts THEN {"context"} ELSE {"assert", "false"}

InitLoader ==
    /\ \E listing \in SeqsUpTo(ListedFiles, MaxFiles) :
          ld = [pc |-> "listed", listing |-> listing, totalDataSize |-> 0,
                mCDF |-> <<>>, mContexts |-> <<>>, ok |-> FALSE,
                u |-> Frac(0, 1), fileIndex |-> 0,
                outcome |-> "none", readFile |-> 0]
    /\ nodes = <<>> /\ last = NoEvaluate /\ ix = IdleIx /\ ft = IdleFt

\* TrainingDataLoader::Init(gen, trainingDataPath)
CallInit ==
    /\ ld.pc = "listed"
    /\ LET st == LoaderInit(ld.listing)
       IN  ld' = [ld EXCEPT !.pc = "ready",
                            !.totalDataSize = st.totalDataSize,
                            !.mCDF = st.mCDF,
                            !.mContexts = st.mContexts,
                            !.ok = LoaderInitResult(ld.listing)]
    /\ UNCHANGED <<nodes, last, ix, ft>>

\* TrainingDataLoader::FetchNextPosition: u is drawn, SampleInputFileIndex(u)
\* is called and the call ends as FetchOutcomes says; readFile is the context
\* whose stream the call reads, counted from 1 (0: none)
CallSample ==
    /\ ld.pc \in {"ready", "sampled"}
    /\ \E u \in SampledU(ld.mCDF) :
          LET fileIndex == SampleInputFileIndex(ld.mCDF, Len(ld.mContexts), u)
          IN  \E outcome \in FetchOutcomes(fileIndex, Len(ld.mContexts)) :
                  ld' = [ld EXCEPT !.pc = "sampled", !.u = u,
                                   !.fileIndex = fileIndex,
                                   !.outcome = outcome,
                                   !.readFile = IF outcome = "context"
                                                THEN fileIndex + 1 ELSE 0]
    /\ UNCHANGED <<nodes, last, ix, ft>>

NextLoader == CallInit \/ CallSample

SpecLoader == InitLoader /\ [][NextLoader]_vars

(***************************************************************************)
(* SpecFetch: InputFileContext::FetchNextPosition.  An iteration of its    *)
(* for (;;) loop is two steps: the read and the filters.  A Bernoulli draw *)
(* with parameter p is the set of its possible outcomes: {FALSE} for       *)
(* p <= 0, {TRUE} for p = 1, both otherwise.  A parameter above 1 breaks   *)
(* the precondition of std::bernoulli_distribution: the behaviour is       *)
(* undefined, and either outcome is allowed.                               *)
(***************************************************************************)
\* the mate score, declared outside src/
CheckmateValue == 32000

Bernoulli(p) ==
    IF p.n <= 0 THEN {FALSE}
    ELSE IF FracEq(Frac(1, 1), p) THEN {TRUE}
    ELSE {TRUE, FALSE}
Never == {FALSE}
Sqr(p) == Frac(p.n * p.n, p.d * p.d)

\* the first filter letting an entry with score = CheckmateValue pass
MateScoreStrict(e) == e.score > CheckmateValue \/ e.score < -CheckmateValue

\* "skip invalid scores"
MateScore(e) == e.score >= CheckmateValue \/ e.score <= -CheckmateValue
\* hmcSkipProb
HmcSkipProb(e) == Frac(e.halfMoveCount, 200)
\* earlyMoveSkipProb, for moveCount < maxEarlyMoveCount
EarlyMoveSkipProb(e) == Frac(5 * (10 - e.moveCount - 1), 100)
\* the parameter thinning out only the counts above 26
PieceCountSkipProbAbove(e) ==
    IF e.numPieces > 26 THEN Sqr(Frac(e.numPieces - 26, 25)) ELSE Frac(0, 1)

\* pieceCountSkipProb
PieceCountSkipProb(e) == Sqr(Frac(e.numPieces - 26, 25))
\* 0.25f * Sqr(std::min(whiteKingProb, blackKingProb))
KingRankSkipProb(e) ==
    LET whiteKingProb == Frac(7 - e.whiteKingRank, 7)
        blackKingProb == Frac(e.blackKingRank, 7)
        least == IF FracLeq(whiteKingProb, blackKingProb) THEN whiteKingProb
                 ELSE blackKingProb
    IN  Frac(Sqr(least).n, 4 * Sqr(least).d)

\* the filters of one iteration in the order of the code, each with the
\* outcomes it may have on entry e (TRUE: the entry is skipped).  The last
\* two draw with a parameter computed by EvalToWinProbability, Evaluate and
\* EvalToExpectedGameScore, which are opaque: either outcome is allowed
Filters(e, skippingProbability, kingBucket) ==
    << [name |-> "mate", skip |-> {MateScore(e)}],
       [name |-> "constant", skip |-> Bernoulli(skippingProbability)],
       [name |-> "halfMove",
        skip |-> IF e.wdlScore = "Draw" THEN Bernoulli(HmcSkipProb(e)) ELSE Never],
       [name |-> "earlyMove",
        skip |-> IF e.moveCount < 10 THEN Bernoulli(EarlyMoveSkipProb(e)) ELSE Never],
       [name |-> "fewPieces", skip |-> {e.numPieces <= 3}],
       [name |-> "fourPieces",
        skip |-> IF e.numPieces <= 4 THEN Bernoulli(Frac(9, 10)) ELSE Never],
       [name |-> "pieceCount",
        skip |-> IF PieceCountSkipProb(e).n > 0 THEN Bernoulli(PieceCountSkipProb(e))
                 ELSE Never],
       [name |-> "kings",
        skip |-> IF kingBucket >= 0
                 THEN {e.whiteKingBucket # kingBucket /\ e.blackKingBucket # kingBucket}
                 ELSE Bernoulli(KingRankSkipProb(e))],
       [name |-> "wdl", skip |-> {TRUE, FALSE}],
       [name |-> "eval", skip |-> {TRUE, FALSE}] >>

\* the filters that may skip the entry: each is reached only when every
\* filter before it may let the entry pass
SkippingFilters(e, skippingProbability, kingBucket) ==
    LET f == Filters(e, skippingProbability, kingBucket)
    IN  {f[i].name : i \in {k \in DOMAIN f :
                               /\ TRUE \in f[k].skip
                               /\ \A j \in 1 .. k - 1 : FALSE \in f[j].skip}}

\* the iteration may reach "return true" on the entry
MayAccept(e, skippingProbability, kingBucket) ==
    LET f == Filters(e, skippingProbability, kingBucket)
    IN  \A k \in DOMAIN f : FALSE \in f[k].skip

\* FileInputStream::Read of one PositionEntry at byte offset pos succeeds
ReadSucceeds(fileSize, pos) == pos + EntrySize <= fileSize

\* FileInputStream::GetPosition after a read at pos failed: the cursor stayed,
\* or the bytes left in the file were consumed
CursorAfterFailedRead(fileSize, pos) ==
    {pos} \cup (IF pos < fileSize THEN {fileSize} ELSE {})

\* the first read failing ends the call at once, whatever the cursor
ReadOffsetNoRetry(fileSize, pos, cursor) ==
    IF ReadSucceeds(fileSize, pos) THEN pos ELSE -1

\* the offset the entry of this iteration is read at: the cursor, or 0 after
\* "Resetting stream" when the first read failed and left the cursor above
\* 0; -1 when the iteration returns false
ReadOffset(fileSize, pos, cursor) ==
    IF ReadSucceeds(fileSize, pos) THEN pos
    ELSE IF cursor > 0 /\ ReadSucceeds(fileSize, 0) THEN 0
    ELSE -1

\* how often the iteration calls SetPosition(0) and Read
Rewinds(fileSize, pos, cursor) ==
    IF ~ReadSucceeds(fileSize, pos) /\ cursor > 0 THEN 1 ELSE 0
Reads(fileSize, pos, cursor) == 1 + Rewinds(fileSize, pos, cursor)

\* the entries files are made of
Entries ==
    {[score |-> sc, wdlScore |-> w, halfMoveCount |-> 0, moveCount |-> 20,
      numPieces |-> n, whiteKingRank |-> 0, blackKingRank |-> 7,
      whiteKingBucket |-> 0, blackKingBucket |-> 1]
       : sc \in {0, CheckmateValue}, w \in {"WhiteWins"}, n \in {3, 26}}
      \cup {[score |-> 0, wdlScore |-> "Draw", halfMoveCount |-> 100, moveCount |-> 5,
              numPieces |-> 32, whiteKingRank |-> 7, blackKingRank |-> 7,
              whiteKingBucket |-> 2, blackKingBucket |-> 2],
             [score |-> -CheckmateValue, wdlScore |-> "BlackWins", halfMoveCount |-> 0,
              moveCount |-> 20, numPieces |-> 26, whiteKingRank |-> 0, blackKingRank |-> 7,
              whiteKingBucket |-> 0, blackKingBucket |-> 1]}

\* the files a context may hold: more than one entry's bytes, as Init admits
\* them, whole entries or with half an entry trailing
FetchFiles ==
    {[records |-> r, fileSize |-> EntrySize * Len(r) + tail]
       : r \in SeqsUpTo(Entries, MaxRecords) \ {<<>>}, tail \in {0, 16}}

\* a file cut below one entry after Init admitted it, the cursor where Init
\* or an earlier call left it
CutFiles ==
    {[records |-> <<>>, fileSize |-> size, position |-> pos]
       : size \in {0, 16}, pos \in {0, EntrySize}}

\* the fields of ft that keep what the last iteration's reads did
NoRead == [readFailed |-> FALSE, cursor |-> 0, rewinds |-> 0, reads |-> 0]

InitFetch ==
    /\ \E sp \in {Frac(0, 1), Frac(1, 20)}, kb \in {-1, 0} :
          \E f \in {[records |-> g.records, fileSize |-> g.fileSize,
                      position |-> entryIndex * EntrySize]
                       : g \in {h \in FetchFiles : h.fileSize > EntrySize},
                         entryIndex \in 0 .. MaxRecords - 1} \cup CutFiles :
              /\ f.records # <<>> => f.position \div EntrySize <= f.fileSize \div EntrySize - 1
              /\ ft = [pc |-> "idle", records |-> f.records, fileSize |-> f.fileSize,
                       position |-> f.position,
                       skippingProbability |-> sp, kingBucket |-> kb,
                       ret |-> FALSE, outEntry |-> 0, skippedBy |-> "none",
                       io |-> NoRead]
    /\ nodes = <<>> /\ last = NoEvaluate /\ ix = IdleIx /\ ld = IdleLd

\* FetchNextPosition is called
CallFetch ==
    /\ ft.pc \in {"idle", "returned"}
    /\ ft' = [ft EXCEPT !.pc = "read", !.skippedBy = "none", !.io = NoRead]
    /\ UNCHANGED <<nodes, last, ix, ld>>

\* the head of an iteration: an entry is read, after "Resetting stream" when
\* the first read fails with the cursor above 0; the call returns false when
\* no entry can be read
ReadEntry ==
    /\ ft.pc = "read"
    /\ \E cursor \in (IF ReadSucceeds(ft.fileSize, ft.position) THEN {0}
                        ELSE CursorAfterFailedRead(ft.fileSize, ft.position)) :
          LET at == ReadOffset(ft.fileSize, ft.position, cursor)
              rewinds == Rewinds(ft.fileSize, ft.position, cursor)
              io == [readFailed |-> ~ReadSucceeds(ft.fileSize, ft.position),
                     cursor |-> cursor, rewinds |-> rewinds,
                     reads |-> Reads(ft.fileSize, ft.position, cursor)]
          IN  IF at < 0
              THEN \E after \in (IF rewinds = 1
                                  THEN CursorAfterFailedRead(ft.fileSize, 0)
                                  ELSE {cursor}) :
                      ft' = [ft EXCEPT !.pc = "returned", !.ret = FALSE,
                                       !.position = after, !.outEntry = 0, !.io = io]
              ELSE ft' = [ft EXCEPT !.pc = "filter", !.position = at + EntrySize,
                                    !.outEntry = at \div EntrySize + 1, !.io = io]
    /\ UNCHANGED <<nodes, last, ix, ld>>

\* one of the filters ends the iteration in "continue"
FilterSkips ==
    /\ ft.pc = "filter"
    /\ \E name \in SkippingFilters(ft.records[ft.outEntry],
                                     ft.skippingProbability, ft.kingBucket) :
           ft' = [ft EXCEPT !.pc = "read", !.skippedBy = name]
    /\ UNCHANGED <<nodes, last, ix, ld>>

\* every filter lets the entry pass: "return true"
FilterAccepts ==
    /\ ft.pc = "filter"
    /\ MayAccept(ft.records[ft.outEntry], ft.skippingProbability, ft.kingBucket)
    /\ ft' = [ft EXCEPT !.pc = "returned", !.ret = TRUE]
    /\ UNCHANGED <<nodes, last, ix, ld>>

NextFetch == CallFetch \/ ReadEntry \/ FilterSkips \/ FilterAccepts

\* the loop keeps running (WF), and an entry that every random filter may
\* let pass is, read again and again, accepted in the end (SF)
SpecFetch ==
    InitFetch /\ [][NextFetch]_vars /\ WF_vars(NextFetch) /\ SF_vars(FilterAccepts)

(***************************************************************************)
(* SpecProb: the skip probabilities of one iteration, computed from the    *)
(* counters of the entry read.                                             *)
(***************************************************************************)
\* an entry of a drawn game that the filters before the counters let pass
ProbEntry ==
    [score |-> 0, wdlScore |-> "Draw", halfMoveCount |-> 0, moveCount |-> 20,
     numPieces |-> 26, whiteKingRank |-> 0, blackKingRank |-> 7,
     whiteKingBucket |-> 0, blackKingBucket |-> 1]

\* the entries drawn: every halfMoveCount of a uint8, the moveCount below and
\* around maxEarlyMoveCount, every occupied.Count() of a 64-bit board
ProbEntries ==
    {[ProbEntry EXCEPT !.halfMoveCount = h] : h \in 0 .. 255}
      \cup {[ProbEntry EXCEPT !.moveCount = m] : m \in 0 .. 12}
      \cup {[ProbEntry EXCEPT !.numPieces = n] : n \in 0 .. 64}

InitProb ==
    /\ \E e \in ProbEntries :
          ft = [pc |-> "read", e |-> e, hmcSkipProb |-> Frac(0, 1),
                earlyMoveSkipProb |-> Frac(0, 1), pieceCountSkipProb |-> Frac(0, 1),
                filters |-> <<>>]
    /\ nodes = <<>> /\ last = NoEvaluate /\ ix = IdleIx /\ ld = IdleLd

\* the three parameters and the outcomes of the filters on the entry
ComputeProb ==
    /\ ft.pc = "read"
    /\ ft' = [ft EXCEPT !.pc = "computed",
                        !.hmcSkipProb = HmcSkipProb(ft.e),
                        !.earlyMoveSkipProb = EarlyMoveSkipProb(ft.e),
                        !.pieceCountSkipProb = PieceCountSkipProb(ft.e),
                        !.filters = Filters(ft.e, Frac(0, 1), -1)]
    /\ UNCHANGED <<nodes, last, ix, ld>>

NextProb == ComputeProb

SpecProb == InitProb /\ [][NextProb]_vars

(***************************************************************************)
(* SpecStream: TrainingDataLoader::FetchNextPosition over two contexts,    *)
(* from the draw of u to the return of the selected context's loop.        *)
(***************************************************************************)
\* the entries of the two files: one with a mate score, which the first
\* filter always skips, and one that every filter may let pass
StreamEntries == {e \in Entries : e.numPieces = 26 /\ e.wdlScore = "WhiteWins"}

\* the files of the two contexts: MaxRecords whole entries each
StreamFiles ==
    {[records |-> r, fileSize |-> EntrySize * Len(r)]
       : r \in {q \in SeqsUpTo(StreamEntries, MaxRecords) : Len(q) = MaxRecords}}

\* the loop head a "continue" of InputFileContext::FetchNextPosition goes
\* to, were it the draw of u in TrainingDataLoader::FetchNextPosition
ContinueAtDraw == "draw"

\* the loop head a "continue" goes to: the for (;;) of
\* InputFileContext::FetchNextPosition, whose first statement is the read
ContinueAt == "read"

InitStream ==
    /\ \E f \in StreamFiles, g \in StreamFiles,
          i \in 0 .. MaxRecords - 1, j \in 0 .. MaxRecords - 1 :
          LET st == LoaderInit(<<[isOpen |-> TRUE, size |-> f.fileSize],
                                 [isOpen |-> TRUE, size |-> g.fileSize]>>)
          IN  ld = [pc |-> "idle",
                    contexts |-> <<[records |-> f.records, fileSize |-> f.fileSize,
                                    position |-> i * EntrySize],
                                   [records |-> g.records, fileSize |-> g.fileSize,
                                    position |-> j * EntrySize]>>,
                    mCDF |-> st.mCDF,
                    skippingProbability |-> Frac(1, 20), kingBucket |-> -1,
                    draws |-> 0, u |-> Frac(0, 1), fileIndex |-> 0,
                    outEntry |-> 0, readFile |-> -1, rejectedFile |-> -1,
                    ret |-> FALSE]
    /\ nodes = <<>> /\ last = NoEvaluate /\ ix = IdleIx /\ ft = IdleFt

\* TrainingDataLoader::FetchNextPosition is called
StreamCall ==
    /\ ld.pc \in {"idle", "returned"}
    /\ ld' = [ld EXCEPT !.pc = "draw", !.draws = 0, !.outEntry = 0,
                        !.readFile = -1, !.rejectedFile = -1]
    /\ UNCHANGED <<nodes, last, ix, ft>>

\* u is drawn and the file selected; fileIndex is counted from 0
StreamDraw ==
    /\ ld.pc = "draw"
    /\ \E u \in SampledU(ld.mCDF) :
          LET fileIndex == SampleInputFileIndex(ld.mCDF, Len(ld.contexts), u)
          IN  IF fileIndex >= Len(ld.contexts)
              THEN ld' = [ld EXCEPT !.pc = "returned", !.ret = FALSE, !.u = u,
                                    !.draws = @ + 1, !.fileIndex = fileIndex]
              ELSE ld' = [ld EXCEPT !.pc = "read", !.u = u, !.draws = @ + 1,
                                    !.fileIndex = fileIndex]
    /\ UNCHANGED <<nodes, last, ix, ft>>

\* the head of an iteration in the selected context
StreamRead ==
    /\ ld.pc = "read"
    /\ LET c == ld.contexts[ld.fileIndex + 1]
       IN  \E cursor \in (IF ReadSucceeds(c.fileSize, c.position) THEN {0}
                           ELSE CursorAfterFailedRead(c.fileSize, c.position)) :
              LET at == ReadOffset(c.fileSize, c.position, cursor)
              IN  IF at < 0
                  THEN ld' = [ld EXCEPT !.pc = "returned", !.ret = FALSE,
                                        !.outEntry = 0]
                  ELSE ld' = [ld EXCEPT
                                 !.pc = "filter",
                                 !.contexts[ld.fileIndex + 1].position = at + EntrySize,
                                 !.outEntry = at \div EntrySize + 1,
                                 !.readFile = ld.fileIndex]
    /\ UNCHANGED <<nodes, last, ix, ft>>

\* one of the filters ends the iteration in "continue"
StreamSkip ==
    /\ ld.pc = "filter"
    /\ SkippingFilters(ld.contexts[ld.fileIndex + 1].records[ld.outEntry],
                       ld.skippingProbability, ld.kingBucket) # {}
    /\ ld' = [ld EXCEPT !.pc = ContinueAt, !.rejectedFile = ld.fileIndex]
    /\ UNCHANGED <<nodes, last, ix, ft>>

\* every filter lets the entry pass: "return true"
StreamAccept ==
    /\ ld.pc = "filter"
    /\ MayAccept(ld.contexts[ld.fileIndex + 1].records[ld.outEntry],
                 ld.skippingProbability, ld.kingBucket)
    /\ ld' = [ld EXCEPT !.pc = "returned", !.ret = TRUE]
    /\ UNCHANGED <<nodes, last, ix, ft>>

NextStream == StreamCall \/ StreamDraw \/ StreamRead \/ StreamSkip \/ StreamAccept

SpecStream == InitStream /\ [][NextStream]_vars

(***************************************************************************)
(* Claims about Evaluate, checked under Spec.                              *)
(***************************************************************************)
Evaluated == last.op = "evaluate"
Incremental(kind) == kind \in {"update", "twoStage"}
RefreshOf(node, perspective) ==
    AccumulatorRefresh(PositionToFeaturesVector(nodes[node].position, perspective))

\* C1: whatever evaluations were made on the stack, a node's accumulator
\* whose dirty flag is false is the accumulator a full refresh from the
\* node's position would give for that perspective.
C1_CleanAccumulatorIsRefresh ==
    \A n \in 1 .. Top : \A p \in Colors :
        ~nodes[n].accumDirty[p] => nodes[n].accumulator[p] = RefreshOf(n, p)

\* an evaluation that made a two-stage update for one perspective and ended
\* with the lists cancelled or copied for the other
C1_Witness ==
    /\ Evaluated /\ ~last.fast
    /\ \E p \in Colors : last.kind[p] = "twoStage"
    /\ \A p \in Colors : ~nodes[last.node].accumDirty[p]

\* C2: the value the incremental Evaluate returns, and every cached nnScore,
\* is the value of the stateless Evaluate on the node's position.
C2_IncrementalEqualsStateless ==
    /\ \A n \in 1 .. Top :
          nodes[n].nnScore # InvalidValue =>
              nodes[n].nnScore = EvaluatePosition(nodes[n].position, nodes[n].sideToMove)
    /\ Evaluated =>
          last.ret = EvaluatePosition(nodes[last.node].position, nodes[last.node].sideToMove)

\* an evaluation with Black to move that updated one accumulator from an
\* ancestor and refreshed the other
C2_Witness ==
    /\ Evaluated /\ ~last.fast
    /\ nodes[last.node].sideToMove = "Black"
    /\ \E p \in Colors :
          Incremental(last.kind[p]) /\ last.kind[GetOppositeColor(p)] = "refresh"

\* the closest node at or above n whose accumulator for p is clean (0: none)
NearestClean(ns, n, p) ==
    IF \E k \in 1 .. n : ~ns[k].accumDirty[p]
    THEN CHOOSE k \in 1 .. n : ~ns[k].accumDirty[p] /\ \A j \in k + 1 .. n : ns[j].accumDirty[p]
    ELSE 0
\* some node from n up to a has p's king on the other side than n has
CrossesBetween(ns, n, a, p) ==
    \E k \in a .. n : KingSide(ns[k].position, p) # KingSide(ns[n].position, p)

C3_Step ==
    (last'.op = "evaluate" /\ ~last'.fast) =>
        \A p \in Colors :
            LET n == last'.node
                a == NearestClean(nodes, n, p)
            IN  /\ Incremental(last'.kind[p]) =>
                      ~CrossesBetween(nodes, n, last'.prev[p], p)
                /\ (a # 0 /\ CrossesBetween(nodes, n, a, p)) =>
                      /\ last'.kind[p] = "refresh"
                      /\ nodes'[n].accumulator[p] =
                            AccumulatorRefresh(PositionToFeaturesVector(nodes[n].position, p))
\* C3: for each perspective p, Evaluate does not update accumulator[p] from
\* an ancestor when a node from the evaluated node up to that ancestor has
\* p's king on the other side of the d/e boundary; when that holds of the
\* closest clean ancestor the accumulator is refreshed instead.
C3_NoUpdateAcrossKingSide == [][C3_Step]_vars

\* an evaluation that refreshed White's accumulator because White's king
\* crossed from the clean parent, and updated Black's from that parent
C3_Witness ==
    /\ Evaluated /\ ~last.fast /\ last.node > 1
    /\ last.kind["White"] = "refresh" /\ last.kind["Black"] = "update"
    /\ last.prev["Black"] = last.node - 1
    /\ ~nodes[last.node - 1].accumDirty["White"]
    /\ CrossesBetween(nodes, last.node, last.node - 1, "White")

C4_Step ==
    \A n \in 1 .. Top :
        (nodes[n].nnScore # InvalidValue /\ last'.op = "evaluate" /\ last'.node = n) =>
            /\ last'.ret = nodes[n].nnScore
            /\ nodes' = nodes
\* C4: called on a node whose nnScore is not the sentinel, Evaluate returns
\* that value and changes no accumulator, dirty flag or nnScore of any node.
C4_CachedScoreReturned == [][C4_Step]_vars

\* the fast path was taken on a node below the root
C4_Witness == Evaluated /\ last.fast /\ last.node > 1

\* C6: every index of PositionToFeaturesVector, and every index
\* DirtyPieceToFeatureIndex returns in an update Evaluate makes, is in
\* [0, 736); the own king's is in [320, 352) and the assertions hold.
C6_IndicesInRange ==
    /\ \A n \in 1 .. Top : \A p \in Colors :
          /\ Range(PositionToFeaturesVector(nodes[n].position, p)) \subseteq 0 .. NumInputs - 1
          /\ WhiteKingIndex(nodes[n].position, p) < 32
    /\ Evaluated =>
          \A c \in last.calls :
              /\ c.asserted
              /\ c.index \in 0 .. NumInputs - 1
              /\ (c.piece = King /\ c.color = c.perspective) => c.index \in 320 .. 351

\* an update moved the own king and the other king within their sides
C6_Witness ==
    /\ Evaluated
    /\ \E c \in last.calls : c.piece = King /\ c.color = c.perspective
    /\ \E c \in last.calls : c.piece = King /\ c.color # c.perspective

C16_Step ==
    (last'.op = "evaluate" /\ ~last'.fast) =>
        \A p \in Colors :
            LET n == last'.node
                A == last'.prev[p]
                parent == nodes[n].parentNode
            IN  /\ (A # 0 /\ A # n /\ A # parent) <=> last'.kind[p] = "twoStage"
                /\ last'.kind[p] = "twoStage" =>
                      /\ A < parent
                      /\ ~nodes'[parent].accumDirty[p] /\ ~nodes'[n].accumDirty[p]
                      /\ nodes'[parent].accumulator[p] = UpdatedAccumulator(nodes, A, parent, p)
                      /\ nodes'[n].accumulator[p] = UpdatedAccumulator(nodes', parent, n, p)
                      /\ nodes'[n].accumulator[p] =
                            AccumulatorRefresh(PositionToFeaturesVector(nodes[n].position, p))
\* C16: when the walk ends at a clean strict ancestor A that is not the
\* parent, Evaluate makes a two-stage update: the parent's accumulator is
\* computed from A's and marked clean, then the node's is computed from
\* the parent's new accumulator; both are clean afterwards.
C16_TwoStageParentFirst == [][C16_Step]_vars

\* an evaluation updated a node from its parent, which has no score of its
\* own: an earlier two-stage update of another child had left it clean
C16_Witness ==
    /\ Evaluated /\ ~last.fast /\ last.node > 2
    /\ nodes[last.node - 1].nnScore = InvalidValue
    /\ \E p \in Colors : last.kind[p] = "update" /\ last.prev[p] = last.node - 1

\* what Evaluate(network, nodes[n]) leaves as it is
C25_Step ==
    last'.op = "evaluate" =>
        LET n == last'.node
            parent == nodes[n].parentNode
        IN  /\ Len(nodes') = Len(nodes)
            /\ last'.fast => nodes' = nodes
            /\ \A k \in 1 .. Top :
                  /\ nodes'[k].dirtyPieces = nodes[k].dirtyPieces
                  /\ nodes'[k].position = nodes[k].position
                  /\ nodes'[k].sideToMove = nodes[k].sideToMove
                  /\ nodes'[k].parentNode = nodes[k].parentNode
                  /\ k # n => nodes'[k].nnScore = nodes[k].nnScore
                  /\ \A p \in Colors :
                        /\ nodes'[k].accumDirty[p] => nodes[k].accumDirty[p]
                        /\ (k # n /\ k # parent) =>
                              /\ nodes'[k].accumulator[p] = nodes[k].accumulator[p]
                              /\ nodes'[k].accumDirty[p] = nodes[k].accumDirty[p]
                        /\ (k = parent /\ (last'.fast \/ last'.kind[p] # "twoStage")) =>
                              /\ nodes'[k].accumulator[p] = nodes[k].accumulator[p]
                              /\ nodes'[k].accumDirty[p] = nodes[k].accumDirty[p]
\* C25: besides the node's own accumulators, dirty flags and nnScore,
\* Evaluate changes only accumulator[p] and accumDirty[p] of the node's
\* parent, and only in the two-stage case; every dirty-piece list, position
\* and parent link, every other node's nnScore, and the accumulators and
\* flags of all other nodes stay as they are, and no accumDirty flag goes
\* from false to true.
C25_EvaluateFrame == [][C25_Step]_vars

\* a two-stage update of the third node changed its parent's accumulator for
\* p and left the parent without a score and the root as it was
C25_Witness ==
    /\ Evaluated /\ ~last.fast /\ last.node = 3
    /\ \E p \in Colors :
          /\ last.kind[p] = "twoStage" /\ last.prev[p] = 1
          /\ ~nodes[2].accumDirty[p]
          /\ nodes[2].accumulator[p] # ZeroVec
    /\ nodes[2].nnScore = InvalidValue
    /\ nodes[1].nnScore # InvalidValue

(***************************************************************************)
(* Claims about Evaluate on chains with dirty-piece lists of any length,   *)
(* checked under SpecTree.                                                 *)
(***************************************************************************)
C15_Step ==
    \A n \in 1 .. Top : \A p \in Colors :
        (last'.op = "evaluate" /\ last'.node = n /\ nodes[n].nnScore = InvalidValue) =>
            /\ ~nodes[n].accumDirty[p] =>
                  /\ last'.prev[p] = n /\ last'.kind[p] = "cached"
                  /\ nodes'[n].accumulator[p] = nodes[n].accumulator[p]
                  /\ ~nodes'[n].accumDirty[p]
            /\ last'.kind[p] # "cached" => nodes[n].accumDirty[p]
            /\ last'.kind[p] = "twoStage" => nodes[nodes[n].parentNode].accumDirty[p]
\* C15: when Evaluate is entered with the sentinel in nnScore and the
\* node's accumulator for p clean, the walk ends at the node itself and the
\* accumulator and its flag are left as they are, however long the node's
\* dirty-piece list is; UpdateAccumulator is only called on nodes whose
\* accumulator for p is dirty (the assertion of line 231).
C15_CleanNodeLeftAlone == [][C15_Step]_vars

\* Evaluate was called on a node with dirty pieces that an earlier two-stage
\* update had left clean for both perspectives, without a score
C15_Witness ==
    /\ Evaluated /\ ~last.fast
    /\ \A p \in Colors : last.kind[p] = "cached"
    /\ Len(nodes[last.node].dirtyPieces) > 0

\* the dirty pieces of the nodes from node n up to and including node a
RECURSIVE DirtySum(_, _, _)
DirtySum(ns, n, a) ==
    IF n < a \/ n = 0 THEN 0
    ELSE Len(ns[n].dirtyPieces) + DirtySum(ns, ns[n].parentNode, a)

C17_Step ==
    (last'.op = "evaluate" /\ ~last'.fast) =>
        \A p \in Colors :
            LET n == last'.node
                A == last'.prev[p]
                clean == NearestClean(nodes, n, p)
                numPieces == GetNumPieces(nodes[n].position)
                refreshed == /\ A = 0 /\ last'.kind[p] = "refresh"
                             /\ nodes'[n].accumulator[p] =
                                   AccumulatorRefresh(
                                       PositionToFeaturesVector(nodes[n].position, p))
            IN  /\ Incremental(last'.kind[p]) =>
                      /\ A # 0 /\ ~nodes[A].accumDirty[p]
                      /\ DirtySum(nodes, n, A) <= numPieces
                /\ clean = 0 => refreshed
                /\ (clean # 0 /\ DirtySum(nodes, n, clean) > numPieces) => refreshed
                /\ A = 0 <=> last'.kind[p] = "refresh"
\* C17: Evaluate updates accumulator[p] from an ancestor A only if the
\* dirty pieces of the nodes from the node up to and including A are at
\* most the pieces of the node's position; when the sum exceeds that before
\* a clean node is reached, or no node up to the root is clean,
\* prevAccumNode is null and the accumulator is refreshed.
C17_UpdateOnlyWithinCost == [][C17_Step]_vars

\* a clean ancestor on the same king side was passed over because the dirty
\* pieces up to it outnumber the pieces of the position: refresh
C17_Witness ==
    /\ Evaluated /\ ~last.fast /\ last.node > 1
    /\ \E p \in Colors :
          LET clean == NearestClean(nodes, last.node - 1, p)
          IN  /\ last.kind[p] = "refresh"
              /\ clean # 0
              /\ ~CrossesBetween(nodes, last.node, clean, p)
              /\ DirtySum(nodes, last.node, clean) > GetNumPieces(nodes[last.node].position)

\* both counts of one UpdateAccumulator call are within limit
CollectedWithin(ns, prevAccumNode, node, perspective, limit) ==
    LET num == NumCollected(ns, prevAccumNode, node, perspective)
    IN  num.numAddedFeatures <= limit /\ num.numRemovedFeatures <= limit

C19_Step ==
    (last'.op = "evaluate" /\ ~last'.fast) =>
        \A p \in Colors : \A limit \in {GetNumPieces(nodes[last'.node].position),
                                         maxChangedFeatures} :
            LET n == last'.node
                A == last'.prev[p]
                parent == nodes[n].parentNode
            IN  /\ GetNumPieces(nodes[n].position) <= 32
                /\ last'.kind[p] = "update" => CollectedWithin(nodes, A, n, p, limit)
                /\ last'.kind[p] = "twoStage" =>
                      /\ CollectedWithin(nodes, A, parent, p, limit)
                      /\ CollectedWithin(nodes', parent, n, p, limit)
\* C19: in every update Evaluate performs, single-stage or either stage of
\* a two-stage update, the collected added indices and the collected removed
\* indices are each at most as many as the pieces of the evaluated position,
\* which are at most 32, and so at most the 64 the arrays hold, however many
\* dirty pieces the nodes carry.
C19_CollectedWithinCapacity == [][C19_Step]_vars

\* a two-stage update whose stages together collected as many added indices
\* as the position has pieces: one more dirty piece and it were a refresh
C19_Witness ==
    /\ Evaluated /\ ~last.fast
    /\ \E p \in Colors :
          LET n == last.node
              parent == nodes[n].parentNode
              first == NumCollected(nodes, last.prev[p], parent, p).numAddedFeatures
              second == NumCollected(nodes, parent, n, p).numAddedFeatures
          IN  /\ last.kind[p] = "twoStage"
              /\ first > 0 /\ second > 0
              /\ first + second = GetNumPieces(nodes[n].position)

(***************************************************************************)
(* Claims about the index functions, checked under SpecIndex.              *)
(***************************************************************************)
IndexDone == ix.pc = "done"
OnBoard == <<ix.piece, ix.color, ix.square>> \in ix.pos
\* the drawn arguments meet what DirtyPieceToFeatureIndex asserts of them
Asserted == OwnKingAssert(ix.piece, ix.color, ix.square, ix.pos, ix.perspective)

Triples == PieceTypes \X Colors \X Squares
IndexOf(t) == DirtyPieceToFeatureIndex(t[1], t[2], t[3], ix.pos, ix.perspective)
AssertedOf(t) == OwnKingAssert(t[1], t[2], t[3], ix.pos, ix.perspective)

Occurrences(seq, x) == Cardinality({i \in DOMAIN seq : seq[i] = x})
SameMultiset(a, b) ==
    \A x \in Range(a) \cup Range(b) : Occurrences(a, x) = Occurrences(b, x)

\* C14: the features of a position from one perspective and the features of
\* its colour mirror from the other perspective are the same multiset; the
\* starting position is its own mirror, so its features from White's and
\* from Black's perspective are the same multiset.
C14_PerspectiveSymmetry ==
    IndexDone =>
        /\ SameMultiset(ix.features, ix.mirrored)
        /\ Len(ix.features) = GetNumPieces(ix.pos)
        /\ ix.pos = StartPosition =>
              /\ ColourMirror(ix.pos) = ix.pos
              /\ SameMultiset(PositionToFeaturesVector(ix.pos, "White"),
                              PositionToFeaturesVector(ix.pos, "Black"))

\* a position that is not its own mirror, its white king on the right
\* files, seen by White, and its mirror seen by Black: the two arrays differ
\* in order
C14_Witness ==
    /\ IndexDone /\ ix.perspective = "White" /\ KingOnRightFiles(ix.pos, "White")
    /\ ColourMirror(ix.pos) # ix.pos
    /\ ix.features # ix.mirrored
    /\ Len(ix.features) = 13

\* a square with its file mirrored (a-h to h-a) and its rank mirrored (1-8 to
\* 8-1), each when asked for
FlippedBy(square, fileFlip, rankFlip) ==
    8 * (IF rankFlip THEN 7 - Rank(square) ELSE Rank(square))
      + (IF fileFlip THEN 7 - File(square) ELSE File(square))

\* the index of a piece in the layout, its square flipped as asked for
IndexUnder(piece, color, square, perspective, fileFlip) ==
    LET r == FlippedBy(square, fileFlip, perspective = "Black")
    IN  IF piece = King /\ color = perspective
        THEN 5 * 64 + 4 * Rank(r) + File(r)
        ELSE (IF color = perspective THEN 0 ELSE 5 * 64 + 32) + 64 * piece + r

\* both functions flip files as fileFlip says and ranks for the Black
\* perspective
FlipsAre(fileFlip) ==
    /\ ix.index = IndexUnder(ix.piece, ix.color, ix.square, ix.perspective, fileFlip)
    /\ Range(ix.features)
          = {IndexUnder(t[1], t[2], t[3], ix.perspective, fileFlip) : t \in ix.pos}
    /\ Len(ix.features) = Cardinality(ix.pos)

Cancelled == ix.pc = "cancelled"

\* how often x is in the accumulator after the update: prev + added - removed
CountAfter(x) ==
    (IF x \in ix.prev THEN 1 ELSE 0)
      + Occurrences(ix.added, x) - Occurrences(ix.removed, x)

\* the lists are the delta from prev to a position: every index is then in
\* the accumulator once or not at all
DeltaOfPosition == \A x \in ChangedIndices : CountAfter(x) \in {0, 1}
\* features(node.position, p) of that position
Reference == {x \in ChangedIndices : CountAfter(x) = 1}

\* C18: for any contents of the two lists, after the cancellation loop no
\* index is in both lists; the loop deleted as many occurrences of every
\* index from the added list as from the removed list, one of each per
\* cancellation; the multiset difference added minus removed is unchanged;
\* and when the lists are the delta that leads to a position, every index
\* left in the added list is a feature of the position and no index left in
\* the removed list is.
C18_CancellationKeepsDifference ==
    Cancelled =>
        LET cancelled == Len(ix.added) - Len(ix.out.added)
        IN  /\ Range(ix.out.added) \cap Range(ix.out.removed) = {}
            /\ cancelled >= 0
            /\ Len(ix.removed) - Len(ix.out.removed) = cancelled
            /\ \A x \in ChangedIndices :
                  /\ Occurrences(ix.added, x) - Occurrences(ix.out.added, x)
                        = Occurrences(ix.removed, x) - Occurrences(ix.out.removed, x)
                  /\ Occurrences(ix.out.added, x) <= Occurrences(ix.added, x)
                  /\ Occurrences(ix.out.added, x) - Occurrences(ix.out.removed, x)
                        = Occurrences(ix.added, x) - Occurrences(ix.removed, x)
            /\ DeltaOfPosition =>
                  /\ Range(ix.out.added) \subseteq Reference
                  /\ Range(ix.out.removed) \cap Reference = {}

\* two cancellations, of which the second is of the element that the first
\* moved into the place under examination, and an index left in each list
C18_Witness ==
    /\ Cancelled /\ DeltaOfPosition
    /\ Len(ix.added) - Len(ix.out.added) = 2
    /\ ix.out.added # <<>> /\ ix.out.removed # <<>>
    /\ Len(ix.added) = 3 /\ ix.added[1] = ix.added[3]

\* the same on the updates Evaluate performs: the lists of each stage, after
\* cancellation, against the features of the stage's position
ChangedWithinReference(ns, prevAccumNode, node, perspective) ==
    LET ch == ChangedFeatures(ns, prevAccumNode, node, perspective)
        reference == Range(PositionToFeaturesVector(ns[node].position, perspective))
    IN  /\ Range(ch.added) \cap Range(ch.removed) = {}
        /\ Range(ch.added) \subseteq reference
        /\ Range(ch.removed) \cap reference = {}
UpdatesCancelStep ==
    (last'.op = "evaluate" /\ ~last'.fast) =>
        \A p \in Colors :
            LET n == last'.node
                A == last'.prev[p]
                parent == nodes[n].parentNode
            IN  /\ last'.kind[p] = "update" =>
                      ChangedWithinReference(nodes, A, n, p)
                /\ last'.kind[p] = "twoStage" =>
                      /\ ChangedWithinReference(nodes, A, parent, p)
                      /\ ChangedWithinReference(nodes', parent, n, p)
UpdatesCancelWithinReference == [][UpdatesCancelStep]_vars

(***************************************************************************)
(* Claims about the loader, checked under SpecLoader.                      *)
(***************************************************************************)
LoaderReady == ld.pc \in {"ready", "sampled"} /\ ld.ok
NumContexts == Len(ld.mContexts)
\* CDF[i] of the claims, i from 0
CDF(i) == ld.mCDF[i + 1]

\* C8: after Init has returned true the CDF is non-decreasing, starts at 0
\* and ends at 1.0.
C8_CdfEndsAtOne ==
    LoaderReady =>
        /\ \A i \in 0 .. Len(ld.mCDF) - 2 : FracLeq(CDF(i), CDF(i + 1))
        /\ FracEq(CDF(0), Frac(0, 1))
        /\ FracEq(CDF(Len(ld.mCDF) - 1), Frac(1, 1))

\* C9: with N >= 1 files admitted, SampleInputFileIndex(u) is the largest i
\* with CDF[i] <= u, it is below N, and u < CDF[i+1].
C9_SampleBrackets ==
    (LoaderReady /\ ld.pc = "sampled") =>
        /\ ld.fileIndex \in 0 .. NumContexts - 1
        /\ FracLeq(CDF(ld.fileIndex), ld.u)
        /\ \A i \in 0 .. NumContexts : FracLeq(CDF(i), ld.u) => i <= ld.fileIndex
        /\ FracLess(ld.u, CDF(ld.fileIndex + 1))

\* the sum of the sizes of the admitted files, from context k on
RECURSIVE AdmittedSizeFrom(_)
AdmittedSizeFrom(k) ==
    IF k > NumContexts THEN 0 ELSE ld.mContexts[k].fileSize + AdmittedSizeFrom(k + 1)

\* CDF[i+1] - CDF[i] = size(i) / (sum of the admitted sizes), i from 0
MassIsShare(i) ==
    LET hi == CDF(i + 1)
        lo == CDF(i)
    IN  FracEq(Frac(hi.n * lo.d - lo.n * hi.d, hi.d * lo.d),
               Frac(ld.mContexts[i + 1].fileSize, AdmittedSizeFrom(1)))

\* C23: after Init, for every admitted file i the mass CDF[i+1] - CDF[i] is
\* size(i) divided by the sum of the sizes of the admitted files, whatever
\* the directory lists.
C23_MassIsShareOfAdmitted ==
    LoaderReady => \A i \in 0 .. NumContexts - 1 : MassIsShare(i)

\* the same for the listings of admitted files only, and the CDF of three
\* files of 100, 300 and 600 bytes
MassIsShareWhenAllAdmitted ==
    /\ (LoaderReady /\ \A k \in DOMAIN ld.listing : Admitted(ld.listing[k])) =>
            \A i \in 0 .. NumContexts - 1 : MassIsShare(i)
    /\ LET cdf == LoaderInit(<<[isOpen |-> TRUE, size |-> 100],
                               [isOpen |-> TRUE, size |-> 300],
                               [isOpen |-> TRUE, size |-> 600]>>).mCDF
       IN  /\ Len(cdf) = 4
           /\ FracEq(cdf[1], Frac(0, 1)) /\ FracEq(cdf[2], Frac(1, 10))
           /\ FracEq(cdf[3], Frac(4, 10)) /\ FracEq(cdf[4], Frac(1, 1))

\* some file of the listing opens and is larger than one record
SomeAdmitted == \E i \in DOMAIN ld.listing : ld.listing[i].isOpen /\ ld.listing[i].size > 32
InitDone == ld.pc \in {"ready", "sampled"}
\* a call of FetchNextPosition ended on a loader with no context
FetchedOnEmpty == ld.pc = "sampled" /\ NumContexts = 0

C10_FetchReturns == (ft.pc \in {"read", "filter"}) ~> (ft.pc = "returned")

\* the entry the last iteration read
OutEntry == ft.records[ft.outEntry]
Returned(b) == ft.pc = "returned" /\ ft.ret = b
\* the last iteration ended in "continue"
Skipped == ft.pc = "read" /\ ft.skippedBy # "none"

\* C11: FetchNextPosition never returns true with an entry whose score is a
\* mate score, and such an entry is skipped by the first filter, the one
\* before every random draw and before the position is unpacked.
C11_MateScoreRejectedFirst ==
    /\ Returned(TRUE) => ~(OutEntry.score >= CheckmateValue \/ OutEntry.score <= -CheckmateValue)
    /\ (Skipped /\ (OutEntry.score >= CheckmateValue \/ OutEntry.score <= -CheckmateValue))
          => ft.skippedBy = "mate"

\* an entry with score = -CheckmateValue was skipped in a context whose
\* constant-skipping draw could have skipped it as well
C11_Witness ==
    /\ Skipped /\ ft.skippedBy = "mate"
    /\ OutEntry.score = -CheckmateValue
    /\ ft.skippingProbability.n > 0

\* the reads of an iteration were made
ReadDone == ft.pc \in {"filter", "returned"} /\ ft.io.reads > 0
\* ... and the first of them failed
ReadFailed == ReadDone /\ ft.io.readFailed

\* C13: when the read fails with the cursor above 0 the stream is rewound
\* once and the read retried once, the entry at offset 0 being the one
\* filtered if the retry succeeds; when the read fails with the cursor at 0,
\* or the retry fails, the call returns false.  No iteration rewinds more
\* than once, and a call returns true only with an entry a read delivered.
C13_RewindOnceThenFalse ==
    /\ (ReadFailed /\ ft.io.cursor > 0) =>
          /\ ft.io.rewinds = 1 /\ ft.io.reads = 2
          /\ IF ft.fileSize >= 32
             THEN ~Returned(FALSE) /\ ft.outEntry = 1 /\ ft.position = 32
             ELSE Returned(FALSE)
    /\ (ReadFailed /\ ft.io.cursor = 0) =>
          /\ Returned(FALSE) /\ ft.io.rewinds = 0 /\ ft.io.reads = 1
    /\ ReadDone => ft.io.rewinds <= 1
    /\ (ReadDone /\ ~ft.io.readFailed) => (ft.io.rewinds = 0 /\ ft.io.reads = 1)
    /\ Returned(FALSE) => ft.io.readFailed
    /\ Returned(TRUE) => ft.outEntry \in DOMAIN ft.records

\* the stream of a file of two entries reached its end and was rewound, and
\* the first entry went to the filters
C13_Witness ==
    /\ ReadFailed /\ ft.pc = "filter"
    /\ ft.io.rewinds = 1 /\ ft.outEntry = 1 /\ Len(ft.records) = 2

\* the retry failed too, on a file cut short: the call returned false
C13_WitnessRetryFails ==
    /\ ReadFailed /\ Returned(FALSE) /\ ft.io.rewinds = 1 /\ ft.io.reads = 2

(***************************************************************************)
(* Claims about the loader's FetchNextPosition, checked under SpecStream.  *)
(***************************************************************************)
\* a filter rejected the record of this iteration
Rejects == ld.pc = "filter" /\ ld'.rejectedFile = ld.fileIndex /\ ld'.pc # "returned"

\* a rejection leads to a new draw of u and a new selection of the file
C20_OriginalStep == Rejects => ld'.pc = "draw"
C20_Original == [][C20_OriginalStep]_vars

C20_Step ==
    /\ Rejects =>
          /\ ld'.pc = "read"
          /\ ld'.draws = ld.draws /\ ld'.u = ld.u /\ ld'.fileIndex = ld.fileIndex
    /\ (ld.pc = "read" /\ ld'.pc = "filter") =>
          /\ ld.draws = 1 /\ ld'.draws = 1
          /\ ld'.readFile = ld.fileIndex
          /\ ld.rejectedFile # -1 => ld'.readFile = ld.rejectedFile
          /\ \A k \in DOMAIN ld.contexts :
                k # ld.fileIndex + 1 => ld'.contexts[k] = ld.contexts[k]
\* C20: whenever a filter rejects a record, the loop continues at the read
\* in the same context: no new u is drawn, the file is not selected again,
\* and the next record is read from the stream of the file the rejected
\* record came from, the other stream being left where it was; u is drawn
\* once in a call, before its first read.
C20_RejectionContinuesInSameFile == [][C20_Step]_vars

\* a record was rejected and the next one read from the same file, under a
\* single draw of u, with another file there to select
C20_Witness ==
    /\ ld.pc = "filter"
    /\ ld.rejectedFile = ld.fileIndex /\ ld.readFile = ld.fileIndex
    /\ ld.draws = 1
    /\ Len(ld.contexts) = 2
    /\ \E u \in SampledU(ld.mCDF) :
          SampleInputFileIndex(ld.mCDF, Len(ld.contexts), u) # ld.fileIndex

(***************************************************************************)
(* Claims about the skip probabilities, checked under SpecProb.            *)
(***************************************************************************)
ProbComputed == ft.pc = "computed"
\* the outcomes the named filter may have on the entry (TRUE: skipped)
SkipOf(name) ==
    LET k == CHOOSE i \in DOMAIN ft.filters : ft.filters[i].name = name
    IN  ft.filters[k].skip
CannotFire(name) == SkipOf(name) = {FALSE}

\* C22 as claimed: the filter cannot fire at 32 pieces, nor at 5 to 26.
C22_Original ==
    (ProbComputed /\ ft.e.numPieces \in {32} \cup 5 .. 26) => CannotFire("pieceCount")

\* C22, amended: the parameter ((num_pieces - 26)/25)^2 is 0 at 26 pieces
\* only, where the filter cannot fire; at every other count from 5 to 50 it
\* lies strictly between 0 and 1 and the filter may fire or not, at 32
\* pieces with parameter 0.0576; at 51 pieces it is 1 and the filter always
\* fires; from 52 pieces on it is above 1.
C22_PieceCountFilterFires ==
    ProbComputed =>
        LET n == ft.e.numPieces
            prob == ft.pieceCountSkipProb
        IN  /\ FracEq(prob, Frac((n - 26) * (n - 26), 625))
            /\ n = 26 => (FracEq(prob, Frac(0, 1)) /\ CannotFire("pieceCount"))
            /\ n = 32 => FracEq(prob, Frac(576, 10000))
            /\ (n \in 5 .. 50 /\ n # 26) =>
                  /\ FracLess(Frac(0, 1), prob) /\ FracLess(prob, Frac(1, 1))
                  /\ SkipOf("pieceCount") = {TRUE, FALSE}
            /\ n = 51 => (FracEq(prob, Frac(1, 1)) /\ SkipOf("pieceCount") = {TRUE})
            /\ n >= 52 => FracLess(Frac(1, 1), prob)

\* an entry of 32 pieces that the piece-count filter may skip
C22_Witness ==
    /\ ProbComputed /\ ft.e.numPieces = 32
    /\ TRUE \in SkipOf("pieceCount")
    /\ "pieceCount" \in SkippingFilters(ft.e, Frac(0, 1), -1)

\* 0 <= p <= 1: what std::bernoulli_distribution requires of its parameter
IsProbability(p) == FracLeq(Frac(0, 1), p) /\ FracLeq(p, Frac(1, 1))

\* C24: every parameter the iteration hands to a Bernoulli draw is within
\* [0, 1]: halfMoveCount/200 on an entry of a drawn game, the early-move
\* parameter on an entry with moveCount < 10, and ((num_pieces - 26)/25)^2
\* on an entry of 4 to 64 pieces.
C24_ParametersAreProbabilities ==
    ProbComputed =>
        /\ ft.e.wdlScore = "Draw" => IsProbability(ft.hmcSkipProb)
        /\ ft.e.moveCount < 10 => IsProbability(ft.earlyMoveSkipProb)
        /\ ft.e.numPieces \in 4 .. 64 => IsProbability(ft.pieceCountSkipProb)

\* the same within the counters of a game played to the rules: at most 200
\* half moves without progress, at most 32 pieces (51 is where the
\* piece-count parameter reaches 1); the early-move parameter is computed
\* without wrap-around, 10 - moveCount - 1 being at least 0
ParametersWithinRange ==
    ProbComputed =>
        /\ (ft.e.wdlScore = "Draw" /\ ft.e.halfMoveCount <= 200)
              => IsProbability(ft.hmcSkipProb)
        /\ ft.e.moveCount < 10 =>
              /\ 10 - ft.e.moveCount - 1 >= 0
              /\ IsProbability(ft.earlyMoveSkipProb)
              /\ FracLeq(ft.earlyMoveSkipProb, Frac(45, 100))
        /\ ft.e.numPieces \in 4 .. 51 => IsProbability(ft.pieceCountSkipProb)

=============================================================================
